---- MODULE Spec2Model ----
(***************************************************************************)
(* The headless Snake environment of src/train_headless.py (HeadlessGame)  *)
(* and the part of the training loop (train_ultra_fast) that drives it.    *)
(*                                                                         *)
(* Points are records [x, y] in pixels, as the namedtuple Point.  The      *)
(* source hard-codes a board of 640 x 480 pixels (32 x 24 cells of         *)
(* BLOCK_SIZE pixels) and a stall guard of 100 frames per segment; the     *)
(* model keeps the code's arithmetic and checks it on a board of           *)
(* GridCols x GridRows cells with a stall guard of StallFactor frames per  *)
(* segment.  The start cell Point(320, 240) of the source is the cell      *)
(* (32 \div 2, 24 \div 2); the model uses (GridCols \div 2, GridRows \div  *)
(* 2).                                                                     *)
(***************************************************************************)
EXTENDS Integers, Sequences, FiniteSets, TLC

\* ------------------------------------------------------------ bounds
GridCols == 4
GridRows == 2
StallFactor == 1
\* MAX_MEMORY is 500_000 and BATCH_SIZE 4000 in the source.
MaxMemory == 2
BatchSize == 1
\* The largest batch train_step is examined for.
MaxBatch == 2
\* Iterations of the training loop that are followed.
MaxIterations == 3
\* The largest n_game action selection is examined for.
MaxGames == 80

\* ------------------------------------------------------------ constants
BLOCK_SIZE == 20

WIDTH == GridCols * BLOCK_SIZE
HEIGHT == GridRows * BLOCK_SIZE

Point(px, py) == [x |-> px, y |-> py]

RIGHT == "RIGHT"
DOWN == "DOWN"
LEFT == "LEFT"
UP == "UP"
Direction == {RIGHT, LEFT, UP, DOWN}

\* The one-hot action vectors the policy produces (get_action).
Actions == {<<1, 0, 0>>, <<0, 1, 0>>, <<0, 0, 1>>}

VARIABLES
    direction,        \* HeadlessGame.direction
    head,             \* HeadlessGame.head
    snake,            \* HeadlessGame.snake, head first
    score,            \* HeadlessGame.score
    food,             \* HeadlessGame.food
    frame_iteration,  \* HeadlessGame.frame_iteration
    pc,               \* where the loop stands: "play", "over" (done, reset
                      \* pending) or "crashed" (uncaught RecursionError)
    ret,              \* the (reward, done, score) last returned by
                      \* play_step_headless
    recorded,         \* the (reward, done) the loop stored for that step
    steps,            \* history: calls of play_step_headless since the
                      \* construction or the last reset()
    eaten,            \* history: of these calls, those that took the food
                      \* branch (line 134)
    n_game,           \* HeadlessAgent.n_game
    epsilon,          \* HeadlessAgent.epsilon
    memory,           \* HeadlessAgent.memory, oldest first
    final_move,       \* the action get_action returned last
    draws,            \* history: the values random.randint returned in the
                      \* last call of get_action, in the order of the calls
    prediction,       \* the output of the network the last argmax was taken of
    episodes,         \* history: iterations of the loop that ended a game
    pushed,           \* history: every transition given to remember, in order
    weights,          \* the parameters of the Linear_QNet, as the table of
                      \* its outputs
    batch,            \* the transitions of the last call of train_step
    target,           \* the target tensor the last call of train_step built
    eval_move,        \* the action the evaluation agent returned last
    eval_log,         \* history: per evaluation agent and encoded state, the
                      \* action it returned when it was last given this state
    record,           \* train_ultra_fast: the best score so far
    scores,           \* train_ultra_fast: the scores of the games ended
    saves,            \* history: the calls of Linear_QNet.save so far
    calls,            \* history: what the loop called in its last iteration
                      \* (or, after a game ended, in the rest of it), in order
    program,          \* the script that runs
    model_file,       \* ./models/model.pth: <<>> when there is no such file,
                      \* else <<w>> for the network w it holds
    phase,            \* "start" before the agent is constructed, "ready"
                      \* after, "exited" when the process has ended
    exit_status,      \* the status of a process that has exited
    eval_steps        \* history: the calls of game.play_step of an
                      \* evaluation script

env_vars == <<direction, head, snake, score, food, frame_iteration, pc, ret,
              recorded, steps, eaten>>

agent_vars == <<n_game, epsilon, memory, final_move, draws, prediction,
                episodes, pushed>>

trainer_vars == <<weights, batch, target>>

eval_vars == <<eval_move, eval_log>>

run_vars == <<record, scores, saves, calls>>

proc_vars == <<program, model_file, phase, exit_status, eval_steps>>

vars == <<direction, head, snake, score, food, frame_iteration, pc, ret, recorded,
          steps, eaten, n_game, epsilon, memory, final_move, draws, prediction,
          episodes, pushed, weights, batch, target, eval_move, eval_log,
          record, scores, saves, calls, program, model_file, phase,
          exit_status, eval_steps>>

\* ------------------------------------------------------------ helpers
Range(s) == {s[i] : i \in 1..Len(s)}

\* The cells random.randint(0, (640-BLOCK_SIZE)//BLOCK_SIZE) * BLOCK_SIZE can
\* draw in _place_food.
FoodCells ==
    {Point(i * BLOCK_SIZE, j * BLOCK_SIZE) :
        i \in 0..((WIDTH - BLOCK_SIZE) \div BLOCK_SIZE),
        j \in 0..((HEIGHT - BLOCK_SIZE) \div BLOCK_SIZE)}

FreeCells_NoReject(snk) == FoodCells

\* _place_food draws a cell and draws again while the cell is in the snake:
\* the cells it can end on.
FreeCells(snk) == FoodCells \ Range(snk)

is_collision_RightEdgeOpen(pt, snk) ==
    IF (pt.x > WIDTH \/ pt.x < 0 \/
        pt.y > HEIGHT - BLOCK_SIZE \/ pt.y < 0)
    THEN TRUE
    ELSE IF \E i \in 2..Len(snk) : snk[i] = pt
         THEN TRUE
         ELSE FALSE

is_collision_WholeSnake(pt, snk) ==
    IF (pt.x > WIDTH - BLOCK_SIZE \/ pt.x < 0 \/
        pt.y > HEIGHT - BLOCK_SIZE \/ pt.y < 0)
    THEN TRUE
    ELSE IF \E i \in 1..Len(snk) : snk[i] = pt
         THEN TRUE
         ELSE FALSE

\* is_collision(pt) evaluated against the snake snk.
is_collision(pt, snk) ==
    IF (pt.x > WIDTH - BLOCK_SIZE \/ pt.x < 0 \/
        pt.y > HEIGHT - BLOCK_SIZE \/ pt.y < 0)
    THEN TRUE
    ELSE IF \E i \in 2..Len(snk) : snk[i] = pt
         THEN TRUE
         ELSE FALSE

clock_wise == <<RIGHT, DOWN, LEFT, UP>>

index(seq, e) == CHOOSE i \in 1..Len(seq) : seq[i] = e

new_dir_Swapped(dir, action) ==
    LET idx == index(clock_wise, dir) - 1
    IN  IF action = <<1, 0, 0>>
        THEN clock_wise[idx + 1]
        ELSE IF action = <<0, 1, 0>>
             THEN clock_wise[((idx - 1) % 4) + 1]
             ELSE clock_wise[((idx + 1) % 4) + 1]

\* _move, first half: the new heading.  Indices are 1-based here, so the
\* code's (idx + 1) % 4 and (idx - 1) % 4 on 0-based indices are shifted.
new_dir(dir, action) ==
    LET idx == index(clock_wise, dir) - 1
    IN  IF action = <<1, 0, 0>>
        THEN clock_wise[idx + 1]
        ELSE IF action = <<0, 1, 0>>
             THEN clock_wise[((idx + 1) % 4) + 1]
             ELSE clock_wise[((idx - 1) % 4) + 1]

\* _move, second half: the head displaced by one block in heading dir.
moved_head(h, dir) ==
    IF dir = RIGHT THEN Point(h.x + BLOCK_SIZE, h.y)
    ELSE IF dir = LEFT THEN Point(h.x - BLOCK_SIZE, h.y)
    ELSE IF dir = DOWN THEN Point(h.x, h.y + BLOCK_SIZE)
    ELSE IF dir = UP THEN Point(h.x, h.y - BLOCK_SIZE)
    ELSE h

stalled_BeforeInsert(fi, snk) == fi > StallFactor * (Len(snk) - 1)

\* The stall guard of play_step_headless.
stalled(fi, snk) == fi > StallFactor * Len(snk)

loop_reward_NoOverride(reward, done) == reward

\* The reward the loop stores: -10 when done, 10 when the reward is positive.
loop_reward(reward, done) ==
    IF done THEN -10
    ELSE IF reward > 0 THEN 10
    ELSE reward

\* ------------------------------------------------------------ state encoder
\* np.array(state, dtype=int): a boolean becomes 1 or 0.
to_int(b) == IF b THEN 1 ELSE 0

\* get_state, lines 146-149: the four cells around the head snake[0].
point_l(h) == Point(h.x - BLOCK_SIZE, h.y)
point_r(h) == Point(h.x + BLOCK_SIZE, h.y)
point_u(h) == Point(h.x, h.y - BLOCK_SIZE)
point_d(h) == Point(h.x, h.y + BLOCK_SIZE)

danger_straight_RightPoint(dir, snk) ==
    \/ dir = UP /\ is_collision(point_r(snk[1]), snk)
    \/ dir = DOWN /\ is_collision(point_d(snk[1]), snk)
    \/ dir = LEFT /\ is_collision(point_l(snk[1]), snk)
    \/ dir = RIGHT /\ is_collision(point_r(snk[1]), snk)

\* get_state, lines 158-161: entry 0 of the state.
danger_straight(dir, snk) ==
    \/ dir = UP /\ is_collision(point_u(snk[1]), snk)
    \/ dir = DOWN /\ is_collision(point_d(snk[1]), snk)
    \/ dir = LEFT /\ is_collision(point_l(snk[1]), snk)
    \/ dir = RIGHT /\ is_collision(point_r(snk[1]), snk)

\* get_state, lines 163-166: entry 1 of the state.
danger_right(dir, snk) ==
    \/ dir = UP /\ is_collision(point_r(snk[1]), snk)
    \/ dir = DOWN /\ is_collision(point_l(snk[1]), snk)
    \/ dir = UP /\ is_collision(point_u(snk[1]), snk)
    \/ dir = DOWN /\ is_collision(point_d(snk[1]), snk)

\* get_state, lines 168-171: entry 2 of the state.
danger_left(dir, snk) ==
    \/ dir = UP /\ is_collision(point_r(snk[1]), snk)
    \/ dir = DOWN /\ is_collision(point_l(snk[1]), snk)
    \/ dir = RIGHT /\ is_collision(point_u(snk[1]), snk)
    \/ dir = LEFT /\ is_collision(point_d(snk[1]), snk)

dir_flags_RightFirst(dir) == <<dir = RIGHT, dir = LEFT, dir = UP, dir = DOWN>>

\* get_state, lines 151-154 and 174: dir_l, dir_r, dir_u, dir_d.
dir_flags(dir) == <<dir = LEFT, dir = RIGHT, dir = UP, dir = DOWN>>

food_flags_Mirrored(fd, hd) ==
    <<fd.x > hd.x, fd.x < hd.x, fd.y > hd.y, fd.y < hd.y>>

\* get_state, lines 177-180: the food against game.head.
food_flags(fd, hd) ==
    <<fd.x < hd.x, fd.x > hd.x, fd.y < hd.y, fd.y > hd.y>>

\* get_state(game): the 11 entries, entry k of the code at position k + 1.
get_state(dir, hd, snk, fd) ==
    <<to_int(danger_straight(dir, snk)),
      to_int(danger_right(dir, snk)),
      to_int(danger_left(dir, snk)),
      to_int(dir_flags(dir)[1]),
      to_int(dir_flags(dir)[2]),
      to_int(dir_flags(dir)[3]),
      to_int(dir_flags(dir)[4]),
      to_int(food_flags(fd, hd)[1]),
      to_int(food_flags(fd, hd)[2]),
      to_int(food_flags(fd, hd)[3]),
      to_int(food_flags(fd, hd)[4])>>

\* ------------------------------------------------------------ agent
\* The network is a function of the encoded state; it is modelled by the
\* table of its outputs on the states of StateIds, each output a row of three
\* Q values. The values are multiples of GammaDen, which keeps gamma * max
\* an integer.
StateIds == {1, 2}

WeightsA == [s \in StateIds |-> IF s = 1 THEN <<10, 0, 0>> ELSE <<0, 20, 10>>]

WeightsB == [s \in StateIds |-> IF s = 1 THEN <<0, 10, 10>> ELSE <<0, 0, 10>>]

Weights == {WeightsA, WeightsB}

\* Linear_QNet.forward: the output of the network w for the state s.
forward(w, s) == w[s]

\* The outputs a network can give.
QRows == {forward(w, s) : w \in Weights, s \in StateIds}

\* The networks ./models/model.pth can hold: any table of such outputs.
SavedWeights == [StateIds -> QRows]

\* max(5, 80 - self.n_game)
EPSILON_FLOOR == 5
EPSILON_START == 80

\* random.randint(0, 200) returns an integer of 0..200, both ends included.
RAND_MAX == 200

Max(a, b) == IF a >= b THEN a ELSE b

exploration_NoFloor(n) == EPSILON_START - n

\* get_action, line 185: the threshold for the agent's n_game.
exploration(n) == Max(EPSILON_FLOOR, EPSILON_START - n)

\* final_move = [0, 0, 0]; final_move[move] = 1, move counted from 0.
one_hot(move) == [k \in 1..3 |-> IF k = move + 1 THEN 1 ELSE 0]

\* torch.max(t): the largest entry.
max_of(t) == CHOOSE v \in Range(t) : \A u \in Range(t) : u <= v

\* torch.argmax(t).item(): the position, counted from 0, of the first largest
\* entry of the flattened tensor.
argmax(t) ==
    CHOOSE k \in 0..(Len(t) - 1) :
        /\ t[k + 1] = max_of(t)
        /\ \A j \in 0..(k - 1) : t[j + 1] < t[k + 1]

\* HeadlessAgent.get_action for the agent's n_game n: d is the value of
\* random.randint(0, 200), move the value of random.randint(0, 2) (drawn only
\* in the first branch), pred the output of the network for the state.
get_action(n, d, move, pred) ==
    IF d < exploration(n)
    THEN one_hot(move)
    ELSE one_hot(argmax(pred))

\* TrainedAgent.get_action and RecordedTrainedAgent.get_action.
trained_get_action(pred) == one_hot(argmax(pred))

remember_Unbounded(mem, t) == Append(mem, t)

\* remember: append on a deque(maxlen = MAX_MEMORY), which discards from the
\* other end when it is full.
remember(mem, t) ==
    IF Len(mem) = MaxMemory
    THEN Append(Tail(mem), t)
    ELSE Append(mem, t)

\* HeadlessAgent.gamma, 0.9.
GammaNum == 9
GammaDen == 10

Q_new_AlwaysBootstrap(w, t) ==
    t.reward + (GammaNum * max_of(forward(w, t.next_state))) \div GammaDen

\* train_step, lines 70-72.
Q_new(w, t) ==
    IF t.done
    THEN t.reward
    ELSE t.reward + (GammaNum * max_of(forward(w, t.next_state))) \div GammaDen

\* The action tensor of a batch, flattened row after row.
RECURSIVE flat_actions(_)
flat_actions(b) ==
    IF b = <<>> THEN <<>> ELSE b[1].action \o flat_actions(Tail(b))

\* train_step, lines 67-73: pred.clone() with, in every row idx, the entry
\* torch.argmax(action) overwritten with Q_new. The argmax is taken of the
\* whole action tensor.
train_step(w, b) ==
    [idx \in 1..Len(b) |->
        [forward(w, b[idx].state) EXCEPT ![argmax(flat_actions(b)) + 1] =
            Q_new(w, b[idx])]]

\* The transitions the loop stores: done comes with reward -10, a step that
\* goes on with 0 or 10 (lines 243-246).
Transitions ==
    [state : StateIds, action : Actions, reward : {-10}, next_state : StateIds,
     done : {TRUE}]
    \cup
    [state : StateIds, action : Actions, reward : {0, 10}, next_state : StateIds,
     done : {FALSE}]

\* The samples train_long_memory can pass on, up to MaxBatch transitions.
RECURSIVE Batches(_)
Batches(n) ==
    IF n = 0 THEN {<<>>}
    ELSE {<<>>} \cup {<<t>> \o b : t \in Transitions, b \in Batches(n - 1)}

EvalAgents == {"test_trained_model", "record_ai_gameplay"}

NoLog == [a \in EvalAgents |-> [s \in StateIds |-> <<>>]]

\* ------------------------------------------------------------ initial state
StartHead == Point((GridCols \div 2) * BLOCK_SIZE, (GridRows \div 2) * BLOCK_SIZE)

StartSnake ==
    <<StartHead,
      Point(StartHead.x - BLOCK_SIZE, StartHead.y),
      Point(StartHead.x - (2 * BLOCK_SIZE), StartHead.y)>>

NoReturn == [reward |-> 0, done |-> FALSE, score |-> 0]
NoRecord == [reward |-> 0, done |-> FALSE]

\* HeadlessGame.__init__ (the environment the loop constructs), before the
\* first iteration of the loop.
Init ==
    /\ direction = RIGHT
    /\ head = StartHead
    /\ snake = StartSnake
    /\ score = 0
    /\ frame_iteration = 0
    /\ food \in FreeCells(StartSnake)
    /\ pc = "play"
    /\ ret = NoReturn
    /\ recorded = NoRecord
    /\ steps = 0
    /\ eaten = 0

\* ------------------------------------------------------------ operations
Reset_KeepScore ==
    /\ pc # "crashed"
    /\ direction' = RIGHT
    /\ head' = StartHead
    /\ snake' = StartSnake
    /\ score' = score
    /\ frame_iteration' = 0
    /\ food' \in FreeCells(StartSnake)
    /\ pc' = "play"
    /\ steps' = 0
    /\ eaten' = 0
    /\ UNCHANGED <<ret, recorded>>

Reset_KeepFood ==
    /\ pc # "crashed"
    /\ direction' = RIGHT
    /\ head' = StartHead
    /\ snake' = StartSnake
    /\ score' = 0
    /\ frame_iteration' = 0
    /\ food' = food
    /\ pc' = "play"
    /\ steps' = 0
    /\ eaten' = 0
    /\ UNCHANGED <<ret, recorded>>

\* reset(): self.__init__().  The loop calls it after a terminal step; the
\* environment accepts it in any state.
Reset ==
    /\ pc # "crashed"
    /\ direction' = RIGHT
    /\ head' = StartHead
    /\ snake' = StartSnake
    /\ score' = 0
    /\ frame_iteration' = 0
    /\ food' \in FreeCells(StartSnake)
    /\ pc' = "play"
    /\ steps' = 0
    /\ eaten' = 0
    /\ UNCHANGED <<ret, recorded>>

next_frame_NotOnFood(fi) == IF moved_head(head, direction) = food THEN fi ELSE fi + 1

\* play_step_headless, line 123: the frame counter after the call.
next_frame(fi) == fi + 1

grow_or_pop_AlwaysPop(ns, ate) == SubSeq(ns, 1, Len(ns) - 1)

grow_or_pop_NeverPop(ns, ate) == ns

\* play_step_headless, lines 134-139: the snake keeps the inserted head and
\* loses its tail unless the head is on the food.
grow_or_pop(ns, ate) ==
    IF ate THEN ns ELSE SubSeq(ns, 1, Len(ns) - 1)

\* One iteration of the loop up to remember(): play_step_headless(action),
\* the reward override and the stored transition.
Step(action) ==
    /\ pc = "play"
    /\ steps' = steps + 1
    /\ LET fi == next_frame(frame_iteration)
           nd == new_dir(direction, action)
           nh == moved_head(head, nd)
           ns == <<nh>> \o snake
       IN  /\ frame_iteration' = fi
           /\ direction' = nd
           /\ head' = nh
           /\ IF is_collision(nh, ns) \/ stalled(fi, ns)
              THEN /\ snake' = ns
                   /\ UNCHANGED <<score, food, eaten>>
                   /\ ret' = [reward |-> -1, done |-> TRUE, score |-> score]
                   /\ recorded' = [reward |-> loop_reward(-1, TRUE), done |-> TRUE]
                   /\ pc' = "over"
              ELSE IF nh = food
                   THEN /\ snake' = grow_or_pop(ns, TRUE)
                        /\ score' = score + 1
                        /\ eaten' = eaten + 1
                        /\ IF FreeCells(snake') # {}
                           THEN /\ food' \in FreeCells(snake')
                                /\ ret' = [reward |-> 10, done |-> FALSE,
                                           score |-> score + 1]
                                /\ recorded' = [reward |-> loop_reward(10, FALSE),
                                                done |-> FALSE]
                                /\ pc' = "play"
                           ELSE \* every draw is in the snake: the recursion
                                \* of _place_food ends in RecursionError,
                                \* food holding the last cell drawn
                                /\ food' \in FoodCells
                                /\ UNCHANGED <<ret, recorded>>
                                /\ pc' = "crashed"
                   ELSE /\ snake' = grow_or_pop(ns, FALSE)
                        /\ UNCHANGED <<score, food, eaten>>
                        /\ ret' = [reward |-> 0, done |-> FALSE, score |-> score]
                        /\ recorded' = [reward |-> loop_reward(0, FALSE),
                                        done |-> FALSE]
                        /\ pc' = "play"

\* An agent as its __init__ leaves it, but for n_game = n and the network w,
\* with the locals of the loop before its first iteration.
AgentState(n, w) ==
    /\ n_game = n
    /\ epsilon = 0
    /\ memory = <<>>
    /\ final_move = <<0, 0, 0>>
    /\ draws = <<>>
    /\ prediction = <<>>
    /\ episodes = 0
    /\ pushed = <<>>
    /\ weights = w
    /\ batch = <<>>
    /\ target = <<>>
    /\ eval_move = <<0, 0, 0>>
    /\ eval_log = NoLog
    /\ record = 0
    /\ scores = <<>>
    /\ saves = 0
    /\ calls = <<>>

\* The script prog past the construction of its agent, with the weights file
\* as file.
Started(prog, file) ==
    /\ program = prog
    /\ model_file = file
    /\ phase = "ready"
    /\ exit_status = 0
    /\ eval_steps = 0

\* HeadlessAgent.__init__; WeightsA stands for the freshly constructed
\* network.
AgentInit == AgentState(0, WeightsA) /\ Started("train_headless", <<>>)

\* train_ultra_fast before its loop: the agent and its game as constructed.
LoopInit == Init /\ AgentInit

\* The environment as constructed and not played, for the operations of the
\* agent that do not look at it.
EnvIdle == Init /\ food = CHOOSE c \in FreeCells(StartSnake) : TRUE

\* The environment on its own: its two operations under every action, the
\* agent standing by.
EnvStep(action) == Step(action) /\ UNCHANGED <<agent_vars, trainer_vars, eval_vars, run_vars, proc_vars>>

EnvReset == Reset /\ UNCHANGED <<agent_vars, trainer_vars, eval_vars, run_vars, proc_vars>>

Next ==
    \/ \E action \in Actions : EnvStep(action)
    \/ EnvReset

Spec == LoopInit /\ [][Next]_vars

\* The loop of train_ultra_fast: while True, one step per iteration, and
\* game.reset() in the iteration whose step returned done (lines 256-258).
\* Nothing but the uncaught exception stops the loop, so a step that is
\* possible is taken.
LoopReset == pc = "over" /\ EnvReset

LoopNext ==
    \/ \E action \in Actions : EnvStep(action)
    \/ LoopReset

LoopSpec ==
    /\ LoopInit
    /\ [][LoopNext]_vars
    /\ WF_vars(\E action \in Actions : EnvStep(action))
    /\ WF_vars(LoopReset)

\* ------------------------------------------------------------ any action vector
\* The vectors of three entries 0 or 1 a caller can hand to
\* play_step_headless; three of them are the actions.
ActionVectors == {<<a, b, c>> : a \in {0, 1}, b \in {0, 1}, c \in {0, 1}}

\* The environment called with any of these vectors.
RawNext ==
    \/ \E action \in ActionVectors : EnvStep(action)
    \/ EnvReset

RawSpec == LoopInit /\ [][RawNext]_vars

\* ------------------------------------------------------------ training loop
\* The values of random.randint(0, 200) the loop is followed for: the two
\* ends of the range, one for each branch of get_action.
DrawSample == {0, RAND_MAX}

stored_AfterReset(move) ==
    [state |-> get_state(direction, head, snake, food),
     action |-> move,
     reward |-> recorded'.reward,
     next_state |-> get_state(RIGHT, StartHead, StartSnake, food'),
     done |-> recorded'.done]

\* The transition the loop hands to remember and train_short_memory
\* (lines 238-251), from the environment before and after the step.
stored(move) ==
    [state |-> get_state(direction, head, snake, food),
     action |-> move,
     reward |-> recorded'.reward,
     next_state |-> get_state(direction', head', snake', food'),
     done |-> recorded'.done]

\* The choices of k positions out of 1..n, in the order chosen.
Picks(n, k) ==
    {f \in [1..k -> 1..n] : \A i, j \in 1..k : i # j => f[i] # f[j]}

mini_sample_AlwaysWhole(mem) == {mem}

\* train_long_memory, lines 205-208: the samples it can pass to train_step;
\* random.sample picks BATCH_SIZE positions without replacement.
mini_sample(mem) ==
    IF Len(mem) > BatchSize
    THEN {[i \in 1..BatchSize |-> mem[f[i]]] : f \in Picks(Len(mem), BatchSize)}
    ELSE {mem}

new_record_OrEqual(sc, rec) == sc >= rec

\* train_ultra_fast, line 262: if score > record.
new_record(sc, rec) == sc > rec

\* What an iteration calls up to line 254, in order.
iterate_calls ==
    <<"get_state", "get_action", "play_step_headless", "get_state",
      "remember", "train_short_memory">>

\* What the iteration calls after a step that returned done with the score sc
\* (lines 256-265).
end_calls(sc, rec) ==
    <<"reset", "train_long_memory">> \o
    (IF new_record(sc, rec) THEN <<"save">> ELSE <<>>)

\* The actions get_action can return for the agent's n_game n, over the
\* sampled random values and the outputs of the network.
selectable(n) ==
    {get_action(n, d, move, pred) :
        d \in DrawSample, move \in 0..2, pred \in QRows}

\* One iteration of the loop of train_ultra_fast up to train_short_memory
\* (lines 233-254), in which get_action returns action. The network's output
\* for the state is an input: every call of train_step changes the network,
\* and the values of its target are followed in TrainerSpec. A step that
\* does not return (RecursionError) leaves the loop before remember.
TrainIterate(action) ==
    /\ n_game < MaxIterations
    /\ action \in selectable(n_game + 1)
    /\ n_game' = n_game + 1
    /\ epsilon' = exploration(n_game + 1)
    /\ final_move' = action
    /\ Step(action)
    /\ IF pc' = "crashed"
       THEN /\ calls' = SubSeq(iterate_calls, 1, 3)
            /\ UNCHANGED <<memory, pushed, batch>>
       ELSE /\ memory' = remember(memory, stored(action))
            /\ pushed' = Append(pushed, stored(action))
            /\ batch' = <<stored(action)>>
            /\ calls' = iterate_calls
    /\ weights' \in Weights
    /\ UNCHANGED <<draws, prediction, episodes, target, eval_vars, record,
                   scores, saves, proc_vars>>

\* The rest of an iteration whose step returned done (lines 256-268):
\* game.reset(), train_long_memory on a sample of the memory, which changes
\* the network, the record with the save of the network, and the statistics.
\* ret holds what the step returned.
TrainEndEpisode ==
    /\ pc = "over"
    /\ Reset
    /\ episodes' = episodes + 1
    /\ batch' \in mini_sample(memory)
    /\ weights' \in Weights
    /\ record' = IF new_record(ret.score, record) THEN ret.score ELSE record
    /\ saves' = IF new_record(ret.score, record) THEN saves + 1 ELSE saves
    /\ scores' = Append(scores, ret.score)
    /\ calls' = end_calls(ret.score, record)
    /\ UNCHANGED <<n_game, epsilon, memory, final_move, draws, prediction,
                   pushed, target, eval_vars, proc_vars>>

TrainNext ==
    \/ \E action \in Actions : TrainIterate(action)
    \/ TrainEndEpisode

TrainSpec == LoopInit /\ [][TrainNext]_vars

\* ------------------------------------------------------------ action selection
\* An agent that has played n_game iterations, before a call of get_action.
PolicyInit ==
    /\ EnvIdle
    /\ \E n \in 0..MaxGames : AgentState(n, WeightsA)
    /\ Started("train_headless", <<>>)

\* HeadlessAgent.get_action (lines 184-198) with the two random values and
\* the network's output as inputs. The second random value is drawn, and the
\* network evaluated, only in the branch that uses it.
GetAction(d, move, pred) ==
    /\ epsilon' = exploration(n_game)
    /\ final_move' = get_action(n_game, d, move, pred)
    /\ IF d < exploration(n_game)
       THEN /\ draws' = <<d, move>>
            /\ UNCHANGED prediction
       ELSE /\ draws' = <<d>>
            /\ prediction' = pred
    /\ UNCHANGED <<env_vars, n_game, memory, episodes, pushed, trainer_vars,
                   eval_vars, run_vars, proc_vars>>

PolicyNext ==
    draws = <<>> /\
    \E d \in 0..RAND_MAX, move \in 0..2, pred \in QRows : GetAction(d, move, pred)

PolicySpec == PolicyInit /\ [][PolicyNext]_vars

\* ------------------------------------------------------------ evaluation
\* TrainedAgent.__init__ and RecordedTrainedAgent.__init__: the network is
\* loaded from the file and never trained.
EvalInit ==
    /\ EnvIdle
    /\ \E w \in SavedWeights :
          AgentState(0, w) /\ Started("test_trained_model", <<w>>)

EvalGetAction_Explores(agent, s) ==
    /\ prediction' = forward(weights, s)
    /\ \E move \in 0..2 : eval_move' = one_hot(move)
    /\ eval_log' = [eval_log EXCEPT ![agent][s] = eval_move']
    /\ UNCHANGED <<env_vars, n_game, epsilon, memory, final_move, draws,
                   episodes, pushed, trainer_vars, run_vars, proc_vars>>

\* get_action of the evaluation agents for the encoded state s
\* (test_trained_model.py lines 95-107, record_ai_gameplay.py lines 135-147).
EvalGetAction(agent, s) ==
    /\ prediction' = forward(weights, s)
    /\ eval_move' = trained_get_action(forward(weights, s))
    /\ eval_log' = [eval_log EXCEPT ![agent][s] = eval_move']
    /\ UNCHANGED <<env_vars, n_game, epsilon, memory, final_move, draws,
                   episodes, pushed, trainer_vars, run_vars, proc_vars>>

TrainedGetAction == \E s \in StateIds : EvalGetAction("test_trained_model", s)

RecordedGetAction == \E s \in StateIds : EvalGetAction("record_ai_gameplay", s)

EvalNext ==
    \/ TrainedGetAction
    \/ RecordedGetAction

EvalSpec == EvalInit /\ [][EvalNext]_vars

\* ------------------------------------------------------------ trainer
\* A trainer with some network, before its one call of train_step.
TrainerInit ==
    /\ EnvIdle
    /\ \E w \in Weights : AgentState(0, w)
    /\ Started("train_headless", <<>>)

\* QTrainer.train_step on the transitions b: the target is built from the
\* network as it is, then the optimizer step changes the network.
TrainStep(b) ==
    /\ batch' = b
    /\ target' = train_step(weights, b)
    /\ weights' \in Weights
    /\ UNCHANGED <<env_vars, agent_vars, eval_vars, run_vars, proc_vars>>

\* train_short_memory: one transition, which train_step turns into a batch
\* of one (model.py lines 56-62).
TrainShortMemory == batch = <<>> /\ \E t \in Transitions : TrainStep(<<t>>)

\* train_long_memory: a sample of the memory, which holds a transition or
\* more when the call is made.
TrainLongMemory ==
    batch = <<>> /\ \E b \in Batches(MaxBatch) \ {<<>>} : TrainStep(b)

TrainerNext ==
    \/ TrainShortMemory
    \/ TrainLongMemory

TrainerSpec == TrainerInit /\ [][TrainerNext]_vars

\* ------------------------------------------------------------ interrupt
\* KeyboardInterrupt while the loop of train_ultra_fast runs (lines 283-286):
\* the except clause saves the network and the function returns.
Interrupt ==
    /\ pc \in {"play", "over"}
    /\ pc' = "stopped"
    /\ saves' = saves + 1
    /\ calls' = <<"save">>
    /\ UNCHANGED <<direction, head, snake, score, food, frame_iteration, ret,
                   recorded, steps, eaten, agent_vars, trainer_vars, eval_vars,
                   record, scores, proc_vars>>

\* The loop with the environment under every action, and the interrupt.
RunNext ==
    \/ \E action \in Actions : EnvStep(action)
    \/ LoopReset
    \/ Interrupt

RunSpec == LoopInit /\ [][RunNext]_vars

\* ------------------------------------------------------------ startup
Programs == EvalAgents \cup {"train_headless"}

\* The steps of an evaluation script that are followed.
MaxEvalSteps == 2

\* A script is started, with or without a weights file; Linear_QNet(11, 256,
\* 3) gives the fresh network WeightsA.
StartupInit ==
    /\ EnvIdle
    /\ AgentState(0, WeightsA)
    /\ program \in Programs
    /\ model_file \in {<<>>} \cup {<<w>> : w \in SavedWeights}
    /\ phase = "start"
    /\ exit_status = 0
    /\ eval_steps = 0

ConstructTrainedAgent_Continues ==
    /\ phase = "start"
    /\ program \in EvalAgents
    /\ weights' = IF model_file = <<>> THEN weights ELSE model_file[1]
    /\ phase' = "ready"
    /\ UNCHANGED <<env_vars, agent_vars, batch, target, eval_vars, run_vars,
                   program, model_file, exit_status, eval_steps>>

\* TrainedAgent.__init__ and RecordedTrainedAgent.__init__: load_state_dict
\* of the file, and exit(1) on FileNotFoundError.
ConstructTrainedAgent ==
    /\ phase = "start"
    /\ program \in EvalAgents
    /\ IF model_file = <<>>
       THEN /\ phase' = "exited"
            /\ exit_status' = 1
            /\ UNCHANGED weights
       ELSE /\ phase' = "ready"
            /\ weights' = model_file[1]
            /\ UNCHANGED exit_status
    /\ UNCHANGED <<env_vars, agent_vars, batch, target, eval_vars, run_vars,
                   program, model_file, eval_steps>>

\* HeadlessAgent.__init__: no file is read.
ConstructHeadlessAgent ==
    /\ phase = "start"
    /\ program = "train_headless"
    /\ phase' = "ready"
    /\ UNCHANGED <<env_vars, agent_vars, trainer_vars, eval_vars, run_vars,
                   program, model_file, exit_status, eval_steps>>

\* One iteration of the loop of an evaluation script up to game.play_step
\* (test_trained_model.py lines 129-133, record_ai_gameplay.py lines
\* 171-175), for the encoded state s.
EvalPlay ==
    /\ phase = "ready"
    /\ program \in EvalAgents
    /\ eval_steps < MaxEvalSteps
    /\ \E s \in StateIds :
          /\ prediction' = forward(weights, s)
          /\ eval_move' = trained_get_action(forward(weights, s))
          /\ eval_log' = [eval_log EXCEPT ![program][s] = eval_move']
    /\ eval_steps' = eval_steps + 1
    /\ UNCHANGED <<env_vars, n_game, epsilon, memory, final_move, draws,
                   episodes, pushed, trainer_vars, run_vars, program,
                   model_file, phase, exit_status>>

StartupNext ==
    \/ ConstructTrainedAgent
    \/ ConstructHeadlessAgent
    \/ EvalPlay

StartupSpec == StartupInit /\ [][StartupNext]_vars

\* ------------------------------------------------------------ claims

\* C1 as stated: in every state the environment is left in by its
\* construction, by reset() and by a call of play_step_headless that
\* returned (terminal or not), food is no element of snake.
C1_Original ==
    pc # "crashed" => food \notin Range(snake)

\* C1, amended: after construction, after reset() and after every
\* non-terminal step food is no element of snake; in the state a terminal
\* step leaves behind food is no element of snake[1:], and it equals the new
\* head snake[0] only when the step was ended by the stall guard alone.
C1_FoodNotInSnake ==
    /\ pc = "play" => food \notin Range(snake)
    /\ pc = "over" =>
          /\ food \notin Range(Tail(snake))
          /\ food = snake[1] =>
                /\ frame_iteration > StallFactor * Len(snake)
                /\ snake[1] \in FoodCells
                /\ snake[1] \notin Range(Tail(snake))

\* A terminal step of the stall guard whose new head is on the food.
C1_Witness ==
    /\ pc = "over"
    /\ ret.done
    /\ food = snake[1]
    /\ food \notin Range(Tail(snake))

\* A point outside the board.
OutOfGrid(p) == p.x < 0 \/ p.x >= WIDTH \/ p.y < 0 \/ p.y >= HEIGHT

\* The terminal condition as C2 words it, for a step from the current state
\* to the primed one: the snake before the step is the list of non-head
\* segments after the insertion.
TerminalCase ==
    \/ OutOfGrid(head')
    \/ head' \in Range(snake)
    \/ frame_iteration' > StallFactor * (Len(snake) + 1)

\* C2: a call of play_step_headless that returns, returns done=True exactly
\* when the new head is outside the board, or equals a non-head segment, or
\* the incremented frame_iteration exceeds the stall factor times len(snake)
\* counted with the new head inserted; otherwise it returns done=False.
C2_DoneIff ==
    [][\A a \in Actions :
         (Step(a) /\ pc' # "crashed") => (ret'.done <=> TerminalCase)]_vars

\* A terminal step of the stall guard alone: the head is on the board and on
\* no other segment.
C2_Witness ==
    /\ pc = "over"
    /\ ret.done
    /\ ~OutOfGrid(snake[1])
    /\ snake[1] \notin Range(Tail(snake))
    /\ frame_iteration > StallFactor * Len(snake)

C4_PlainStep ==
    [][\A a \in Actions :
         /\ (Step(a) /\ ~TerminalCase /\ head' # food) =>
               /\ ret' = [reward |-> 0, done |-> FALSE, score |-> score]
               /\ score' = score
               /\ food' = food
               /\ snake' = <<head'>> \o SubSeq(snake, 1, Len(snake) - 1)
               /\ Len(snake') = Len(snake)
         /\ (Step(a) /\ ~TerminalCase) =>
               \/ Len(snake') = Len(snake)
               \/ Len(snake') = Len(snake) + 1 /\ head' = food]_vars

\* The state right after a step that neither ended the episode nor ate.
C4_Witness ==
    /\ pc = "play"
    /\ frame_iteration >= 1
    /\ ret = [reward |-> 0, done |-> FALSE, score |-> score]
    /\ Len(snake) = 3 + score

\* C5: a terminal step, by collision or by the stall guard, returns done=True
\* with the score held before the step, changes neither score nor food, keeps
\* the tail, and the transition the loop stores carries reward -10 in place of
\* the environment's -1.
C5_TerminalStep ==
    [][\A a \in Actions :
         (Step(a) /\ TerminalCase) =>
            /\ ret' = [reward |-> -1, done |-> TRUE, score |-> score]
            /\ score' = score
            /\ food' = food
            /\ snake' = <<head'>> \o snake
            /\ recorded' = [reward |-> -10, done |-> TRUE]]_vars

\* The state a terminal step leaves behind, the snake longer by the new head.
C5_Witness ==
    /\ pc = "over"
    /\ ret = [reward |-> -1, done |-> TRUE, score |-> score]
    /\ recorded = [reward |-> -10, done |-> TRUE]
    /\ Len(snake) = 4 + score

\* The heading one place forward in the order RIGHT, DOWN, LEFT, UP.
Clockwise(d) ==
    CASE d = RIGHT -> DOWN [] d = DOWN -> LEFT [] d = LEFT -> UP [] d = UP -> RIGHT

\* The heading C6 gives for an action.
Turned(d, a) ==
    CASE a = <<1, 0, 0>> -> d
      [] a = <<0, 1, 0>> -> Clockwise(d)
      [] a = <<0, 0, 1>> -> CHOOSE e \in Direction : Clockwise(e) = d

\* The unit vector of a heading, y growing downwards.
Unit(d) ==
    CASE d = RIGHT -> <<1, 0>> [] d = LEFT -> <<-1, 0>>
      [] d = DOWN -> <<0, 1>> [] d = UP -> <<0, -1>>

\* C6: a step sets the heading to the one the action selects in the order
\* RIGHT, DOWN, LEFT, UP (straight keeps it, right turn one place forward,
\* left turn one place backward), moves the head by exactly one block in the
\* new heading, inserts it at the front of snake, and head = snake[0] after
\* the step.
C6_Move ==
    [][\A a \in Actions :
         Step(a) =>
            /\ direction' = Turned(direction, a)
            /\ head'.x = head.x + Unit(direction')[1] * BLOCK_SIZE
            /\ head'.y = head.y + Unit(direction')[2] * BLOCK_SIZE
            /\ snake'[1] = head'
            /\ \A i \in 2..Len(snake') : snake'[i] = snake[i - 1]]_vars

\* The scenario of the specification: the first step turns right from RIGHT,
\* the heading is DOWN and the head one block below the start cell.
C6_Witness ==
    /\ frame_iteration = 1
    /\ direction = DOWN
    /\ head = Point(StartHead.x, StartHead.y + BLOCK_SIZE)
    /\ snake[1] = head
    /\ snake[2] = StartHead

\* The cell in column i and row j of the board.
Cell(i, j) == Point(i * BLOCK_SIZE, j * BLOCK_SIZE)

\* C7: after reset() from any state the environment is a valid initial state
\* whatever came before: three segments from the centre cell leftwards, head =
\* snake[0], heading RIGHT, score 0, frame_iteration 0, and food on a
\* block-aligned cell of the board that is not in the snake.
C7_Reset ==
    [][Reset =>
         /\ snake' = <<Cell(GridCols \div 2, GridRows \div 2),
                       Cell((GridCols \div 2) - 1, GridRows \div 2),
                       Cell((GridCols \div 2) - 2, GridRows \div 2)>>
         /\ head' = snake'[1]
         /\ direction' = RIGHT
         /\ score' = 0
         /\ frame_iteration' = 0
         /\ food'.x % BLOCK_SIZE = 0
         /\ food'.y % BLOCK_SIZE = 0
         /\ ~OutOfGrid(food')
         /\ food' \notin Range(snake')]_vars

\* The state reset() leaves after a terminal step (the last return value is
\* still the terminal one).
C7_Witness ==
    /\ pc = "play"
    /\ ret.done
    /\ frame_iteration = 0
    /\ score = 0
    /\ Len(snake) = 3
    /\ food \notin Range(snake)

\* The points is_collision is asked about: the board and the ring of cells
\* around it.
ProbePoints == {Cell(i, j) : i \in -1..GridCols, j \in -1..GridRows}

\* C8: is_collision(pt) is true exactly when pt is outside the board or equals
\* an element of snake[1:], and without an argument it is the answer for the
\* current head.  (is_collision is an operator of its arguments: it reads the
\* snake and assigns nothing.)
C8_IsCollision ==
    /\ \A pt \in ProbePoints :
          is_collision(pt, snake) <=>
             (pt \notin FoodCells \/ pt \in Range(Tail(snake)))
    /\ head \in ProbePoints
    /\ is_collision(head, snake) <=>
          (OutOfGrid(head) \/ \E i \in 2..Len(snake) : snake[i] = head)

\* A terminal state whose head is on the board and on another segment, with
\* the stall guard not reached: is_collision alone ended the episode.
C8_Witness ==
    /\ pc = "over"
    /\ ~OutOfGrid(head)
    /\ head \in Range(Tail(snake))
    /\ frame_iteration <= StallFactor * Len(snake)
    /\ is_collision(head, snake)

\* C9: every step, terminal or not and eating or not, increases
\* frame_iteration by exactly 1; frame_iteration equals the number of steps
\* since the last reset; and it goes back to 0 by reset() only.
C9_FrameCount ==
    /\ [](frame_iteration = steps)
    /\ [][\A a \in Actions : Step(a) => frame_iteration' = frame_iteration + 1]_vars
    /\ [][frame_iteration' # frame_iteration + 1 =>
            Reset /\ frame_iteration' = 0]_vars

\* The state after a terminal step whose head reached the food, later than
\* the first step of the episode: the counter has followed every step.
C9_Witness ==
    /\ pc = "over"
    /\ frame_iteration > 1
    /\ frame_iteration = steps
    /\ food = head

\* C10 as stated: from every state of a running episode, whatever the
\* actions, a terminal step (done=True) is reached after finitely many steps.
C10_Original == (pc = "play") ~> (pc = "over")

\* The encoded state of the environment as it stands.
Encoded == get_state(direction, head, snake, food)

\* C11: in every state exactly one of the entries 3-6 of the encoded state
\* (left, right, up, down) is 1, and it is the one of the current direction.
C11_DirectionFlags ==
    /\ Encoded[4] + Encoded[5] + Encoded[6] + Encoded[7] = 1
    /\ Encoded[4] = 1 <=> direction = LEFT
    /\ Encoded[5] = 1 <=> direction = RIGHT
    /\ Encoded[6] = 1 <=> direction = UP
    /\ Encoded[7] = 1 <=> direction = DOWN

\* A running state after a turn to the left of the start heading: the flag of
\* UP is the one that is set.
C11_Witness ==
    /\ pc = "play"
    /\ frame_iteration >= 1
    /\ direction = UP
    /\ <<Encoded[4], Encoded[5], Encoded[6], Encoded[7]>> = <<0, 0, 1, 0>>

\* The cell one block from p in heading d.
Ahead(p, d) == Point(p.x + Unit(d)[1] * BLOCK_SIZE, p.y + Unit(d)[2] * BLOCK_SIZE)

\* C12 as stated: entry 1 is 1 exactly when is_collision holds for the cell
\* to the right of the heading, entry 2 exactly when it holds for the cell to
\* its left.
C12_Original ==
    /\ Encoded[2] = 1 <=>
          is_collision(Ahead(snake[1], Turned(direction, <<0, 1, 0>>)), snake)
    /\ Encoded[3] = 1 <=>
          is_collision(Ahead(snake[1], Turned(direction, <<0, 0, 1>>)), snake)

\* C13: entry 0 is 1 exactly when is_collision holds for the cell one block
\* ahead of the head in the current heading.
C13_DangerStraight ==
    /\ Encoded[1] \in {0, 1}
    /\ Encoded[1] = 1 <=> is_collision(Ahead(snake[1], direction), snake)

\* A running state heading UP with the cell ahead of the head off the board
\* or on the snake.
C13_Witness ==
    /\ pc = "play"
    /\ direction = UP
    /\ Encoded[1] = 1
    /\ is_collision(Point(head.x, head.y - BLOCK_SIZE), snake)

\* C14: the entries 7-10 are (food.x < head.x), (food.x > head.x),
\* (food.y < head.y), (food.y > head.y) in this order; 7 and 8 are never both
\* 1, 9 and 10 are never both 1, and one of the four is 1 when food differs
\* from the head.
C14_FoodFlags ==
    /\ Encoded[8] = 1 <=> food.x < head.x
    /\ Encoded[9] = 1 <=> food.x > head.x
    /\ Encoded[10] = 1 <=> food.y < head.y
    /\ Encoded[11] = 1 <=> food.y > head.y
    /\ \A k \in 8..11 : Encoded[k] \in {0, 1}
    /\ Encoded[8] + Encoded[9] <= 1
    /\ Encoded[10] + Encoded[11] <= 1
    /\ food # head => Encoded[8] + Encoded[9] + Encoded[10] + Encoded[11] >= 1

\* A running state with the food to the left of and above the head.
C14_Witness ==
    /\ pc = "play"
    /\ food.x < head.x
    /\ food.y < head.y
    /\ <<Encoded[8], Encoded[9], Encoded[10], Encoded[11]>> = <<1, 0, 1, 0>>

\* C15 as stated: the threshold an iteration of the training loop selects its
\* action with is max(5, 80 - episode_count), episode_count the number of
\* games so far (the games ended, or these and the one being played), and it
\* does not change while no game ends.
C15_Original ==
    [][/\ n_game' # n_game =>
            \/ epsilon' = Max(EPSILON_FLOOR, EPSILON_START - episodes)
            \/ epsilon' = Max(EPSILON_FLOOR, EPSILON_START - (episodes + 1))
       /\ (n_game > 0 /\ episodes' = episodes) => epsilon' = epsilon]_vars

\* v has length 3, one entry 1 and two entries 0.
OneHot(v) ==
    /\ DOMAIN v = 1..3
    /\ \E k \in 1..3 : v[k] = 1 /\ \A j \in (1..3) \ {k} : v[j] = 0

\* v marks an entry of row that no entry of row exceeds.
MarksLargest(v, row) ==
    /\ OneHot(v)
    /\ \A k \in 1..3 : v[k] = 1 => \A j \in 1..3 : row[j] <= row[k]

\* What C16 says of a call of get_action whose first random value lies in
\* range.
SelectsAction(range) ==
    draws # <<>> =>
        /\ draws[1] \in range
        /\ Len(draws) = 2 <=> draws[1] < epsilon
        /\ Len(draws) = 2 => draws[2] \in 0..2 /\ final_move[draws[2] + 1] = 1
        /\ Len(draws) = 1 => MarksLargest(final_move, prediction)
        /\ OneHot(final_move)
        /\ epsilon >= EPSILON_FLOOR
        /\ \E d \in range : d < epsilon

\* C16 as stated: the first random value is an integer of 0..199.
C16_Original == SelectsAction(0..(RAND_MAX - 1))

\* C16: get_action draws an integer of 0..200; it takes the action of a second
\* random value of 0..2 exactly when the first is below epsilon, and else the
\* argmax of the network's output; the result is one-hot in both branches, and
\* epsilon is at least 5, so that some first value is below it.
C16_SelectsAction == SelectsAction(0..RAND_MAX)

\* A call at the floor of epsilon whose first random value is 200: the
\* network decides.
C16_Witness ==
    /\ n_game = MaxGames
    /\ epsilon = EPSILON_FLOOR
    /\ draws = <<RAND_MAX>>
    /\ prediction = <<0, 20, 10>>
    /\ final_move = <<0, 1, 0>>

\* C17: every action an evaluation agent returns is the one-hot vector of a
\* largest entry of the network's output for the state, and it is the action
\* any earlier call, of either agent, returned for the same state.
C17_AlwaysArgmax ==
    [][\A a \in EvalAgents, s \in StateIds :
          eval_log'[a][s] # <<>> =>
              /\ MarksLargest(eval_log'[a][s], forward(weights', s))
              /\ \A b \in EvalAgents :
                    eval_log[b][s] # <<>> => eval_log'[a][s] = eval_log[b][s]]_vars

\* Both agents have been given a state for which the network's output has two
\* largest entries, and both returned the first.
C17_Witness ==
    \E s \in StateIds :
        /\ forward(weights, s) = <<0, 10, 10>>
        /\ eval_log["test_trained_model"][s] = <<0, 1, 0>>
        /\ eval_log["record_ai_gameplay"][s] = <<0, 1, 0>>
        /\ eval_move = <<0, 1, 0>>

\* The bootstrapped value of the transition t under the network w.
Bootstrapped(w, t) ==
    LET row == forward(w, t.next_state)
        best == CHOOSE v \in {row[1], row[2], row[3]} :
                    row[1] <= v /\ row[2] <= v /\ row[3] <= v
    IN  t.reward + (GammaNum * best) \div GammaDen

\* What train_step is to write for the transition t under the network w.
Written(w, t) == IF t.done THEN t.reward ELSE Bootstrapped(w, t)

\* C18 as stated: after a call of train_step on a batch of any size, row i of
\* the target is the prediction for state_i, but for the entry at the 1 of
\* action_i, which holds the value written for transition i.
C18_Original ==
    [][batch' # batch =>
          \A i \in 1..Len(batch') : \A k \in 1..3 :
              target'[i][k] =
                  IF batch'[i].action[k] = 1
                  THEN Written(weights, batch'[i])
                  ELSE forward(weights, batch'[i].state)[k]]_vars

\* C19: after a call of train_step, row i of the target is the prediction for
\* state_i with one entry overwritten, and the value written there is reward_i
\* when done_i holds and reward_i + gamma * max(forward(next_state_i)) when it
\* does not.
C19_WrittenValue ==
    [][batch' # batch =>
          \A i \in 1..Len(batch') :
              \E k \in 1..3 :
                  /\ target'[i][k] = Written(weights, batch'[i])
                  /\ \A j \in (1..3) \ {k} :
                        target'[i][j] = forward(weights, batch'[i].state)[j]]_vars

\* A batch of a transition that ended a game and one that did not: the first
\* row holds the reward alone, the second the reward and a bootstrap term.
C19_Witness ==
    /\ Len(batch) = 2
    /\ batch[1].done /\ ~batch[2].done
    /\ \E k \in 1..3 : target[1][k] = batch[1].reward
    /\ \E k \in 1..3 :
          target[2][k] \in {batch[2].reward + GammaNum, batch[2].reward + 2 * GammaNum}

\* C20: the memory never holds more than its capacity; it holds the last
\* transitions pushed, in the order they were pushed, so that after one push
\* more than the capacity the first is gone and the others are there.
C20_ReplayBuffer ==
    /\ Len(memory) <= MaxMemory
    /\ Len(memory) = IF Len(pushed) <= MaxMemory THEN Len(pushed) ELSE MaxMemory
    /\ memory = SubSeq(pushed, Len(pushed) - Len(memory) + 1, Len(pushed))
    /\ Len(pushed) = MaxMemory + 1 => memory = Tail(pushed)

\* One push more than the capacity, of transitions that all differ: the
\* first is not in the memory.
C20_Witness ==
    /\ Len(pushed) = MaxMemory + 1
    /\ Len(memory) = MaxMemory
    /\ \A i \in 2..Len(pushed) : pushed[i] # pushed[1] /\ pushed[i] \in Range(memory)
    /\ pushed[1] \notin Range(memory)

\* p and q are one block apart, horizontally or vertically.
Adjacent(p, q) ==
    \/ p.y = q.y /\ (p.x = q.x + BLOCK_SIZE \/ q.x = p.x + BLOCK_SIZE)
    \/ p.x = q.x /\ (p.y = q.y + BLOCK_SIZE \/ q.y = p.y + BLOCK_SIZE)

\* C27: while an episode runs, the segments of the snake are pairwise
\* distinct, each lies on a block-aligned cell inside the grid, and each is
\* one block away from the segment before it.
C27_SnakeShape ==
    pc = "play" =>
        /\ \A i, j \in 1..Len(snake) : i # j => snake[i] # snake[j]
        /\ \A i \in 1..Len(snake) :
              /\ ~OutOfGrid(snake[i])
              /\ snake[i].x % BLOCK_SIZE = 0
              /\ snake[i].y % BLOCK_SIZE = 0
        /\ \A i \in 2..Len(snake) : Adjacent(snake[i - 1], snake[i])

\* A running episode after a step that ate and a turn: a snake of four
\* segments that is not on one line.
C27_Witness ==
    /\ pc = "play"
    /\ Len(snake) = 4
    /\ steps >= 2
    /\ \E i \in 1..Len(snake) : snake[i].y # head.y

\* C28: while an episode runs score = len(snake) - 3, and the score a terminal
\* step returns is the number of steps since the last reset that ate food.
C28_Score ==
    /\ pc = "play" => score = Len(snake) - 3
    /\ pc = "over" => ret.done /\ ret.score = eaten

\* A terminal step of an episode in which the snake ate twice.
C28_Witness ==
    /\ pc = "over"
    /\ eaten = 2
    /\ ret.score = 2

\* C29 as stated: whenever food is placed (a step takes the food, a reset) a
\* cell of the grid is not occupied by the snake, and the placement ends.
C29_Original ==
    [][/\ \A a \in Actions :
             (Step(a) /\ eaten' # eaten) => FreeCells(snake') # {} /\ pc' = "play"
       /\ Reset => FreeCells(snake') # {} /\ pc' = "play"]_vars

\* C26 as stated: a step called with a vector that is not one of the three
\* actions is rejected and leaves the environment as it was.
C26_Original ==
    [][\A a \in ActionVectors \ Actions :
          Step(a) =>
              /\ direction' = direction
              /\ head' = head
              /\ snake' = snake
              /\ score' = score
              /\ food' = food
              /\ frame_iteration' = frame_iteration]_vars

C22_OneTransition ==
    [][(n_game' # n_game /\ pc' # "crashed") =>
          /\ steps' = steps + 1
          /\ Len(pushed') = Len(pushed) + 1
          /\ SubSeq(pushed', 1, Len(pushed)) = pushed
          /\ LET t == pushed'[Len(pushed')]
             IN  /\ t.state = get_state(direction, head, snake, food)
                 /\ t.action = final_move'
                 /\ t.reward = recorded'.reward
                 /\ t.next_state = get_state(direction', head', snake', food')
                 /\ t.done = (pc' = "over")
                 /\ memory'[Len(memory')] = t
                 /\ batch' = <<t>>
          /\ \E i, j \in 1..Len(calls') :
                /\ i < j
                /\ calls'[i] = "remember"
                /\ calls'[j] = "train_short_memory"
                /\ \A k \in 1..Len(calls') :
                      /\ calls'[k] = "remember" => k = i
                      /\ calls'[k] = "train_short_memory" => k = j
                      /\ calls'[k] # "reset"]_vars

\* A terminal step of the second game: its transition has done set and a new
\* state that is not the state of a fresh game.
C22_Witness ==
    /\ pc = "over"
    /\ episodes = 1
    /\ pushed # <<>>
    /\ pushed[Len(pushed)].done
    /\ pushed[Len(pushed)].reward = -10
    /\ pushed[Len(pushed)].next_state = get_state(direction, head, snake, food)
    /\ pushed[Len(pushed)].next_state # get_state(RIGHT, StartHead, StartSnake, food)
    /\ batch = <<pushed[Len(pushed)]>>

\* The largest of the scores sc, 0 if there is none above 0.
Best(sc) ==
    IF \E i \in 1..Len(sc) : sc[i] > 0
    THEN CHOOSE v \in Range(sc) : \A u \in Range(sc) : u <= v
    ELSE 0

\* C23: a terminal step is followed, before any other step, by the reset of
\* the environment, one long-memory update, the update of the record and a
\* save of the network exactly when the score of the game that ended is above
\* the record; the record never falls and is the largest score of the games
\* ended, 0 if none is above 0.
C23_EndOfEpisode ==
    /\ [](record = Best(scores))
    /\ [][/\ pc = "over" => episodes' = episodes + 1
          /\ record' >= record
          /\ episodes' # episodes =>
                /\ pc = "over" /\ pc' = "play" /\ steps' = 0
                /\ n_game' = n_game
                /\ scores' = Append(scores, ret.score)
                /\ Len(calls') >= 2
                /\ SubSeq(calls', 1, 2) = <<"reset", "train_long_memory">>
                /\ saves' = IF ret.score > record THEN saves + 1 ELSE saves
                /\ (ret.score > record) <=> (calls' =
                      <<"reset", "train_long_memory", "save">>)
                /\ record' = IF ret.score > record THEN ret.score ELSE record
          /\ episodes' = episodes => saves' = saves /\ record' = record]_vars

\* Two games ended, the first with score 0, which was not saved, the second
\* with score 1, which set the record and was saved.
C23_Witness ==
    /\ scores = <<0, 1>>
    /\ record = 1
    /\ saves = 1
    /\ steps = 0
    /\ calls = <<"reset", "train_long_memory", "save">>

\* C24 as stated: an interrupt of the running loop is followed by one save
\* and the end of the loop, after which nothing is stepped, pushed, trained or
\* saved; and the loop ends in no other way.
C24_Original ==
    [][/\ (pc # "stopped" /\ pc' = "stopped") => saves' = saves + 1
       /\ pc = "stopped" =>
             /\ pc' = "stopped"
             /\ steps' = steps
             /\ pushed' = pushed
             /\ batch' = batch
             /\ saves' = saves
       /\ (pc \in {"play", "over"} /\ pc' \notin {"play", "over"}) =>
             pc' = "stopped"]_vars

\* C25: an evaluation script started without a weights file takes no step of
\* the game and, once its agent is constructed, has exited with status 1; the
\* training script never exits at its start and runs on the fresh network.
C25_MissingWeights ==
    /\ (program \in EvalAgents /\ model_file = <<>>) =>
          /\ eval_steps = 0
          /\ phase \in {"start", "exited"}
          /\ phase = "exited" => exit_status = 1
    /\ program = "train_headless" =>
          /\ phase \in {"start", "ready"}
          /\ weights = WeightsA
          /\ exit_status = 0

\* The recording script, started without a weights file, has exited.
C25_Witness ==
    /\ program = "record_ai_gameplay"
    /\ model_file = <<>>
    /\ phase = "exited"
    /\ exit_status = 1
    /\ eval_steps = 0

====
